---- MODULE Spec2Model ----
(***************************************************************************)
(* dirComp.py: comparison of two directory trees.  dirCompare indexes the  *)
(* files of the left tree by an equivalence key (md5 hash when comp_hash,  *)
(* relative path otherwise), then classifies every file of the right tree  *)
(* against that index into output['same'] / output['right']; what is left  *)
(* in the index becomes output['left'].  The __main__ block calls it,      *)
(* prints the result and optionally writes it to a json file.              *)
(*                                                                         *)
(* Paths are sequences of characters (naturals); 0 is the separator '/'.   *)
(* File contents are sequences of bytes.                                   *)
(***************************************************************************)
EXTENDS Naturals, Sequences, FiniteSets, TLC

\* ------------------------------------------------------------------ bounds
\* characters a file name is drawn from: 1..MaxChar
MaxChar == 2
\* bytes a file content is drawn from: 1..MaxByte (contents of length 0 or 1)
MaxByte == 1

\* ------------------------------------------------------------- file system
RootA == <<0, 1>>
RootB == <<0, 2>>
Roots == {RootA, RootB}

RelPaths == {<<c>> : c \in 1..MaxChar}
Contents == {<<>>} \cup {<<b>> : b \in 1..MaxByte}

EmptyMap == [x \in {} |-> x]

Put(m, k, v) == [x \in DOMAIN m \cup {k} |-> IF x = k THEN v ELSE m[x]]
Del(m, k) == [x \in DOMAIN m \ {k} |-> m[x]]

\* a directory entry: a regular file with its bytes, or a sub-directory
Entries == [kind : {"file"}, data : Contents] \cup [kind : {"dir"}, data : {<<>>}]
Trees == UNION {[S -> Entries] : S \in SUBSET RelPaths}
Missing == [exists |-> FALSE, entries |-> EmptyMap]
RootStates == {Missing} \cup {[exists |-> TRUE, entries |-> t] : t \in Trees}

VARIABLES
    fs,            \* the file system: root -> [exists, entries]
    left_folder, right_folder, comp_path, comp_size, comp_hash, silent,
    pc,            \* position in dirCompare / __main__
    key_item,      \* 'hash' or 'path'
    left_files, right_files,
    li, ri,        \* number of files the left / right loop has consumed
    left_buff, output,
    ret,           \* what dirCompare returned to __main__ (a sequence of 0 or 1 results)
    error,         \* the exception raised, "" when none
    events,        \* prints and file system accesses, in program order
    failed,        \* the file whose processing raised (a sequence of 0 or 1 paths)
    left_index,    \* the left index as it stood when the left loop ended
    paired,        \* key -> the right file that was paired with the left entry
    exit_status, file_written

vars == <<fs, left_folder, right_folder, comp_path, comp_size, comp_hash, silent,
          pc, key_item, left_files, right_files, li, ri, left_buff, output,
          ret, error, events, failed, left_index, paired, exit_status, file_written>>

\* ------------------------------------------------------------ path helpers
\* str(root / rel)
Join(root, rel) == root \o <<0>> \o rel

\* file.relative_to(root)
RelativeTo(file, root) == SubSeq(file, Len(root) + 2, Len(file))

RECURSIVE LexLess(_, _)
\* Python's str ordering: a < b
LexLess(a, b) ==
    IF a = <<>> THEN b # <<>>
    ELSE IF b = <<>> THEN FALSE
    ELSE IF Head(a) # Head(b) THEN Head(a) < Head(b)
    ELSE LexLess(Tail(a), Tail(b))

RECURSIVE Sorted(_)
\* sorted(S, key=lambda i: str(i))
Sorted(S) ==
    IF S = {} THEN <<>>
    ELSE LET m == CHOOSE x \in S : \A y \in S \ {x} : LexLess(x, y)
         IN <<m>> \o Sorted(S \ {m})

\* [f for f in root.rglob('*') if f.is_file()]
IsFile(root, rel) == fs[root].entries[rel].kind = "file"
RGlobFiles(root) == {Join(root, rel) : rel \in {r \in DOMAIN fs[root].entries : IsFile(root, r)}}
ListFiles(root) == Sorted(RGlobFiles(root))

Data(root, file) == fs[root].entries[RelativeTo(file, root)].data

\* ---------------------------------------------------- descriptor builders
\* a getPath that forgets relative_to(root)
getPathAbsolute(root, file) == file
getPath(root, file) == RelativeTo(file, root)
getSize(root, file) == Len(Data(root, file))

RECURSIVE Digest(_, _)
Digest(bytes, h) ==
    IF bytes = <<>> THEN h ELSE Digest(Tail(bytes), (h * 31 + Head(bytes)) % 256)
\* md5(f.read()).hexdigest(): a digest of the bytes as two hex digits,
\* collision-free on the contents of the model
getMD5(root, file) == LET h == Digest(Data(root, file), 7) IN <<h \div 16, h % 16>>

loc_calc_path(d, r, i) == IF comp_path THEN Put(d, "path", getPath(r, i)) ELSE d
loc_calc_size(d, r, i) == IF comp_size THEN Put(d, "size", getSize(r, i)) ELSE d
loc_calc_hash(d, r, i) == IF comp_hash THEN Put(d, "hash", getMD5(r, i)) ELSE d

\* loc_dict after the three __loc_calc_* calls
LocDict(root, file) ==
    loc_calc_hash(loc_calc_size(loc_calc_path(EmptyMap, root, file), root, file), root, file)

\* a key selection that prefers the path when both are enabled
KeyItemPathFirst == IF comp_path THEN "path" ELSE "hash"
KeyItem == IF comp_hash THEN "hash" ELSE "path"

\* ------------------------------------------------------------------ events
Ev(op, arg) == [op |-> op, arg |-> arg]

\* silent_print(silent, path)
Announce(file) == IF silent THEN <<>> ELSE <<Ev("print", file)>>
\* silent_print(silent, text)
Banner(text) == IF silent THEN <<>> ELSE <<Ev("banner", text)>>

\* the file system accesses of getPath, getSize and getMD5 on one file
CalcEvents(root, file) ==
    (IF comp_path THEN <<Ev("exists", root), Ev("exists", file)>> ELSE <<>>)
    \o (IF comp_size THEN <<Ev("exists", file), Ev("stat", file)>> ELSE <<>>)
    \o (IF comp_hash THEN <<Ev("exists", file), Ev("read", file)>> ELSE <<>>)

\* a loop body that prints the path after the descriptor is computed
FileEventsComputeFirst(root, file) == CalcEvents(root, file) \o Announce(file)
\* one loop body up to the descriptor: print the path, then compute
FileEvents(root, file) == Announce(file) \o CalcEvents(root, file)

\* ------------------------------------------------------------- loop bodies
\* left_buff[key] = loc_dict
IndexLeft(buff, d) == Put(buff, d[key_item], d)

\* a compare step that forgets del left_buff[key]
CompareKeepsLeft(buff, out, d) ==
    LET key == d[key_item] IN
    IF key \in DOMAIN buff
    THEN [buff |-> buff,
          out  |-> [out EXCEPT !.same = Put(out.same, key, <<buff[key], d>>)]]
    ELSE [buff |-> buff,
          out  |-> [out EXCEPT !.right = Put(out.right, key, d)]]

\* the compare step of the right loop on descriptor d
Compare(buff, out, d) ==
    LET key == d[key_item] IN
    IF key \in DOMAIN buff
    THEN [buff |-> Del(buff, key),
          out  |-> [out EXCEPT !.same = Put(out.same, key, <<buff[key], d>>)]]
    ELSE [buff |-> buff,
          out  |-> [out EXCEPT !.right = Put(out.right, key, d)]]

EmptyOutput == [left |-> EmptyMap, right |-> EmptyMap, same |-> EmptyMap]

\* the exceptions one file's processing can raise: the file vanished
\* (ValueError of the exists() checks) or, when hashed, cannot be opened
FileErrors == {"ValueError"} \cup (IF comp_hash THEN {"OSError"} ELSE {})

\* ------------------------------------------------------------------- Init
Init ==
    /\ fs \in [Roots -> RootStates]
    /\ left_folder = RootA
    /\ right_folder \in Roots
    /\ (right_folder = RootA => fs[RootB] = Missing)
    /\ comp_path \in BOOLEAN
    /\ comp_size \in BOOLEAN
    /\ comp_hash \in BOOLEAN
    /\ silent \in BOOLEAN
    /\ pc = "validate"
    /\ key_item = ""
    /\ left_files = <<>>
    /\ right_files = <<>>
    /\ li = 0
    /\ ri = 0
    /\ left_buff = EmptyMap
    /\ output = EmptyOutput
    /\ ret = <<>>
    /\ error = ""
    /\ events = <<>>
    /\ failed = <<>>
    /\ left_index = EmptyMap
    /\ paired = EmptyMap
    /\ exit_status = <<>>
    /\ file_written = FALSE

config == <<fs, left_folder, right_folder, comp_path, comp_size, comp_hash, silent>>
mainvars == <<exit_status, file_written>>

Raise(err) ==
    /\ pc' = "raised"
    /\ error' = err

\* ---------------------------------------------------------------- actions
\* a validation placed after the first root check
ValidateAfterRootCheck ==
    /\ pc = "validate"
    /\ IF ~comp_path /\ ~comp_hash
       THEN /\ events' = Append(events, Ev("exists", left_folder))
            /\ Raise("ValueError")
            /\ UNCHANGED key_item
       ELSE /\ key_item' = KeyItem
            /\ pc' = "check_left"
            /\ UNCHANGED <<error, events>>
    /\ UNCHANGED <<config, mainvars, left_files, right_files, li, ri, left_buff,
                   output, ret, failed, left_index, paired>>

\* lines 58-60
Validate ==
    /\ pc = "validate"
    /\ IF ~comp_path /\ ~comp_hash
       THEN /\ Raise("ValueError")
            /\ UNCHANGED key_item
       ELSE /\ key_item' = KeyItem
            /\ pc' = "check_left"
            /\ UNCHANGED error
    /\ UNCHANGED <<config, mainvars, left_files, right_files, li, ri, left_buff,
                   output, ret, events, failed, left_index, paired>>

\* lines 62-64
CheckLeft ==
    /\ pc = "check_left"
    /\ events' = Append(events, Ev("exists", left_folder))
    /\ IF fs[left_folder].exists
       THEN pc' = "check_right" /\ UNCHANGED error
       ELSE Raise("ValueError")
    /\ UNCHANGED <<config, mainvars, key_item, left_files, right_files, li, ri,
                   left_buff, output, ret, failed, left_index, paired>>

\* lines 65-67
CheckRight ==
    /\ pc = "check_right"
    /\ events' = Append(events, Ev("exists", right_folder))
    /\ IF fs[right_folder].exists
       THEN pc' = "list" /\ UNCHANGED error
       ELSE Raise("ValueError")
    /\ UNCHANGED <<config, mainvars, key_item, left_files, right_files, li, ri,
                   left_buff, output, ret, failed, left_index, paired>>

\* lines 69-76
ListBoth ==
    /\ pc = "list"
    /\ left_files' = ListFiles(left_folder)
    /\ right_files' = ListFiles(right_folder)
    /\ output' = EmptyOutput
    /\ left_buff' = EmptyMap
    /\ events' = events \o <<Ev("rglob", left_folder), Ev("rglob", right_folder)>>
                        \o Banner("Analyzing left_folder")
    /\ pc' = "left"
    /\ UNCHANGED <<config, mainvars, key_item, li, ri, ret, error, failed,
                   left_index, paired>>

\* lines 77-84, one iteration
LeftFile ==
    /\ pc = "left"
    /\ li < Len(left_files)
    /\ LET lf == left_files[li + 1] IN
        /\ events' = events \o FileEvents(left_folder, lf)
        /\ left_buff' = IndexLeft(left_buff, LocDict(left_folder, lf))
    /\ li' = li + 1
    /\ UNCHANGED <<config, mainvars, pc, key_item, left_files, right_files, ri,
                   output, ret, error, failed, left_index, paired>>

\* lines 77-82, an iteration in which getPath, getSize or getMD5 raises
LeftFileFails ==
    /\ pc = "left"
    /\ li < Len(left_files)
    /\ LET lf == left_files[li + 1] IN
        /\ events' = events \o Announce(lf)
        /\ failed' = <<lf>>
    /\ \E e \in FileErrors : Raise(e)
    /\ UNCHANGED <<config, mainvars, key_item, left_files, right_files, li, ri,
                   left_buff, output, ret, left_index, paired>>

\* lines 85-88
LeftDone ==
    /\ pc = "left"
    /\ li = Len(left_files)
    /\ events' = events \o Banner("\n\n") \o Banner("Analyzing right_folder")
    /\ left_index' = left_buff
    /\ pc' = "right"
    /\ UNCHANGED <<config, mainvars, key_item, left_files, right_files, li, ri,
                   left_buff, output, ret, error, failed, paired>>

\* lines 89-102, one iteration
RightFile ==
    /\ pc = "right"
    /\ ri < Len(right_files)
    /\ LET rf == right_files[ri + 1]
           d == LocDict(right_folder, rf)
           key == d[key_item]
           st == Compare(left_buff, output, d)
       IN
        /\ events' = events \o FileEvents(right_folder, rf)
        /\ left_buff' = st.buff
        /\ output' = st.out
        /\ paired' = IF key \in DOMAIN left_buff
                     THEN Put(paired, key,
                              (IF key \in DOMAIN paired THEN paired[key] ELSE <<>>)
                              \o <<rf>>)
                     ELSE paired
    /\ ri' = ri + 1
    /\ UNCHANGED <<config, mainvars, pc, key_item, left_files, right_files, li,
                   ret, error, failed, left_index>>

\* a right loop that swallows the exception and goes on with the next file
RightFileSkipsFailure ==
    /\ pc = "right"
    /\ ri < Len(right_files)
    /\ LET rf == right_files[ri + 1] IN
        /\ events' = events \o Announce(rf)
        /\ failed' = <<rf>>
    /\ ri' = ri + 1
    /\ UNCHANGED <<config, mainvars, pc, error, key_item, left_files, right_files, li,
                   left_buff, output, ret, left_index, paired>>

\* lines 89-94, an iteration in which getPath, getSize or getMD5 raises
RightFileFails ==
    /\ pc = "right"
    /\ ri < Len(right_files)
    /\ LET rf == right_files[ri + 1] IN
        /\ events' = events \o Announce(rf)
        /\ failed' = <<rf>>
    /\ \E e \in FileErrors : Raise(e)
    /\ UNCHANGED <<config, mainvars, key_item, left_files, right_files, li, ri,
                   left_buff, output, ret, left_index, paired>>

\* lines 103-105
Finish ==
    /\ pc = "right"
    /\ ri = Len(right_files)
    /\ output' = [output EXCEPT !.left = left_buff]
    /\ ret' = <<output'>>
    /\ pc' = "returned"
    /\ UNCHANGED <<config, mainvars, key_item, left_files, right_files, li, ri,
                   left_buff, error, events, failed, left_index, paired>>

\* lines 171-175: print the result, write it when -o was given; exit status 0
MainReturn ==
    /\ pc = "returned"
    /\ \E args_output \in BOOLEAN : file_written' = args_output
    /\ exit_status' = <<0>>
    /\ pc' = "exited"
    /\ UNCHANGED <<config, key_item, left_files, right_files, li, ri, left_buff,
                   output, ret, error, events, failed, left_index, paired>>

\* lines 179-183: print the exception, exit(-1)
MainExcept ==
    /\ pc = "raised"
    /\ exit_status' = <<255>>
    /\ pc' = "exited"
    /\ UNCHANGED <<config, file_written, key_item, left_files, right_files, li, ri,
                   left_buff, output, ret, error, events, failed, left_index, paired>>

Next ==
    \/ Validate
    \/ CheckLeft
    \/ CheckRight
    \/ ListBoth
    \/ LeftFile
    \/ LeftFileFails
    \/ LeftDone
    \/ RightFile
    \/ RightFileFails
    \/ Finish
    \/ MainReturn
    \/ MainExcept

Spec == Init /\ [][Next]_vars

\* ------------------------------------------- dirCompare as one function
RECURSIVE LeftPass(_, _, _)
\* the left loop over `files`
LeftPass(files, root, buff) ==
    IF files = <<>> THEN buff
    ELSE LeftPass(Tail(files), root, IndexLeft(buff, LocDict(root, Head(files))))

RECURSIVE RightPass(_, _, _, _)
\* the right loop over `files`, then output['left'] = left_buff
RightPass(files, root, buff, out) ==
    IF files = <<>> THEN [out EXCEPT !.left = buff]
    ELSE LET st == Compare(buff, out, LocDict(root, Head(files)))
         IN RightPass(Tail(files), root, st.buff, st.out)

\* what dirCompare(l, r, ...) returns when no file's processing raises
DirCompare(l, r) ==
    RightPass(ListFiles(r), r, LeftPass(ListFiles(l), l, EmptyMap), EmptyOutput)

\* the step-by-step run returns what the loops compute as a whole
RunIsDirCompare == ret # <<>> => ret[1] = DirCompare(left_folder, right_folder)

\* --------------------------------------------------- vocabulary of claims
Returned == ret # <<>>
Keys(m) == DOMAIN m

\* the regular files of a tree, by relative path
RegularFiles(root) == {rel \in DOMAIN fs[root].entries : fs[root].entries[rel].kind = "file"}
Bytes(root, rel) == fs[root].entries[rel].data
\* the equivalence key the data model gives the file at rel: hash or path
ModelKey(root, rel) ==
    IF comp_hash THEN getMD5(root, Join(root, rel)) ELSE rel
TreeKeys(root) == {ModelKey(root, rel) : rel \in RegularFiles(root)}
LeftKeys == TreeKeys(left_folder)
RightKeys == TreeKeys(right_folder)

\* positions of the files of a listing that carry key k
WithKey(files, root, k) ==
    {i \in 1..Len(files) : ModelKey(root, RelativeTo(files[i], root)) = k}
Max(S) == CHOOSE x \in S : \A y \in S : y <= x
Min(S) == CHOOSE x \in S : \A y \in S : x <= y
LastWithKey(files, root, k) == files[Max(WithKey(files, root, k))]
FirstWithKey(files, root, k) == files[Min(WithKey(files, root, k))]

\* ----------------------------------------------------------------- claims

\* C1: the key sets of output['left'], output['right'] and output['same'] of
\* a returned result are pairwise disjoint and their union is the set of all
\* keys observed in either tree, also when files of one tree share a key.
C1Partition ==
    Returned =>
        LET r == ret[1] IN
        /\ Keys(r.left) \cap Keys(r.right) = {}
        /\ Keys(r.left) \cap Keys(r.same) = {}
        /\ Keys(r.right) \cap Keys(r.same) = {}
        /\ Keys(r.left) \cup Keys(r.right) \cup Keys(r.same) = LeftKeys \cup RightKeys

\* C2: with L and R the key sets of the two trees, a returned result has
\* keys(left) = L \ R, keys(right) = R \ L and keys(same) = L \cap R.
C2SetDifference ==
    Returned =>
        LET r == ret[1] IN
        /\ Keys(r.left) = LeftKeys \ RightKeys
        /\ Keys(r.right) = RightKeys \ LeftKeys
        /\ Keys(r.same) = LeftKeys \cap RightKeys

\* C3: dirCompare(B, A) returns as 'left' the 'right' of dirCompare(A, B), as
\* 'right' its 'left', and a 'same' with the same keys and reversed pairs.
C3SwapSymmetry ==
    Returned =>
        LET a == ret[1]
            b == DirCompare(right_folder, left_folder)
        IN
        /\ b.left = a.right
        /\ b.right = a.left
        /\ Keys(b.same) = Keys(a.same)
        /\ \A k \in Keys(a.same) : b.same[k] = <<a.same[k][2], a.same[k][1]>>

\* C8: for every key of a tree the returned result holds exactly one
\* descriptor of that tree, the one of the last file in traversal order with
\* that key: in 'left' or the left slot of a 'same' pair for the left tree,
\* in 'right' or the right slot of a 'same' pair for the right tree.
C8LastWriteWins ==
    Returned =>
        LET r == ret[1] IN
        /\ \A k \in LeftKeys :
            LET d == LocDict(left_folder, LastWithKey(left_files, left_folder, k)) IN
            \/ k \in Keys(r.left) /\ k \notin Keys(r.same) /\ r.left[k] = d
            \/ k \in Keys(r.same) /\ k \notin Keys(r.left) /\ r.same[k][1] = d
        /\ \A k \in RightKeys :
            LET d == LocDict(right_folder, LastWithKey(right_files, right_folder, k)) IN
            \/ k \in Keys(r.right) /\ k \notin Keys(r.same) /\ r.right[k] = d
            \/ k \in Keys(r.same) /\ k \notin Keys(r.right) /\ r.same[k][2] = d

\* C4: with comp_path and comp_hash both false dirCompare raises its
\* invalid-argument error (ValueError) whatever the roots are, and nothing
\* was accessed or announced before: no exists(), no rglob, no read, no print.
C4KeyValidation ==
    (~comp_path /\ ~comp_hash) =>
        /\ pc \in {"validate", "raised", "exited"}
        /\ pc # "validate" => error = "ValueError"
        /\ events = <<>>
        /\ ret = <<>>

\* C4 happens: the error was raised although the left root holds a file
C4Witness ==
    /\ ~comp_path /\ ~comp_hash
    /\ pc = "raised"
    /\ RegularFiles(left_folder) # {}
    /\ ~fs[right_folder].exists

\* C5: a tree compared with itself under path-keying (comp_path, no
\* comp_hash) returns empty 'left' and 'right', and 'same' has one entry per
\* regular file, keyed by its relative path, both descriptors with that path.
C5Idempotence ==
    (Returned /\ left_folder = right_folder /\ comp_path /\ ~comp_hash) =>
        LET r == ret[1] IN
        /\ r.left = EmptyMap
        /\ r.right = EmptyMap
        /\ Keys(r.same) = RegularFiles(left_folder)
        /\ \A k \in Keys(r.same) :
            /\ r.same[k][1]["path"] = k
            /\ r.same[k][2]["path"] = k

\* C5 happens: a self-comparison of a tree with two files has returned
C5Witness ==
    /\ Returned /\ left_folder = right_folder /\ comp_path /\ ~comp_hash
    /\ Cardinality(RegularFiles(left_folder)) >= 2
    /\ Cardinality(Keys(ret[1].same)) >= 2

\* pairs (left file, right file) with the same bytes and different relative paths
TwinPairs ==
    {pr \in RegularFiles(left_folder) \X RegularFiles(right_folder) :
        /\ Bytes(left_folder, pr[1]) = Bytes(right_folder, pr[2])
        /\ pr[1] # pr[2]}

\* every descriptor of a result is stored under its 'hash' when comp_hash is
\* enabled and under its 'path' otherwise, and where a key lands is decided
\* by the hash/path keys of the two trees alone
KeyedByHashOrPath(r) ==
    LET field == IF comp_hash THEN "hash" ELSE "path" IN
    /\ \A k \in Keys(r.left) : r.left[k][field] = k
    /\ \A k \in Keys(r.right) : r.right[k][field] = k
    /\ \A k \in Keys(r.same) : r.same[k][1][field] = k /\ r.same[k][2][field] = k
    /\ Keys(r.left) = LeftKeys \ RightKeys
    /\ Keys(r.same) = LeftKeys \cap RightKeys
    /\ Keys(r.right) \subseteq RightKeys

C7ErrorsTerminal ==
    /\ (pc \notin {"validate", "check_left"} /\ ~fs[left_folder].exists)
            => error = "ValueError"
    /\ (pc \notin {"validate", "check_left", "check_right"} /\ ~fs[right_folder].exists)
            => error = "ValueError"
    /\ failed # <<>> => error # ""
    /\ error # "" =>
        /\ pc \in {"raised", "exited"}
        /\ ret = <<>>
        /\ ~file_written
        /\ pc = "exited" => (exit_status # <<>> /\ exit_status[1] # 0)

\* C7 happens: a right file failed after another right file had been matched,
\* and the program has exited
C7Witness ==
    /\ pc = "exited"
    /\ failed # <<>>
    /\ ri >= 1
    /\ output.same # EmptyMap

\* C9: every 'same' entry pairs the left index's descriptor, unchanged, with
\* the first right file in traversal order that has the key; exactly one right
\* file was ever paired under the key, the key left the left index when the
\* entry was written, and later right files do not touch the entry.
C9AtMostOneMatch ==
    /\ \A k \in Keys(output.same) :
        /\ k \in Keys(paired)
        /\ Len(paired[k]) = 1
        /\ paired[k][1] = FirstWithKey(right_files, right_folder, k)
        /\ Min(WithKey(right_files, right_folder, k)) <= ri
        /\ k \in Keys(left_index)
        /\ output.same[k] = <<left_index[k], LocDict(right_folder, paired[k][1])>>
        /\ k \notin Keys(left_buff)
    /\ Keys(paired) = Keys(output.same)
    /\ (pc = "right" \/ Returned) =>
        /\ Keys(left_buff) = Keys(left_index) \ Keys(output.same)
        /\ \A k \in Keys(left_buff) : left_buff[k] = left_index[k]

\* C9 happens: two right files carry a key of the left index, and both were processed
C9Witness ==
    /\ pc = "right"
    /\ ri = Len(right_files)
    /\ \E k \in Keys(output.same) : Cardinality(WithKey(right_files, right_folder, k)) >= 2

IsPrint(e) == e.op = "print"
IsCalc(e) == e.op \in {"stat", "read"} \/ (e.op = "exists" /\ e.arg \notin Roots)
\* the paths announced so far, in order
PrintedPaths ==
    LET P == SelectSeq(events, IsPrint) IN [i \in 1..Len(P) |-> P[i].arg]
FailedLeft == failed # <<>> /\ li < Len(left_files)
FailedRight == failed # <<>> /\ li = Len(left_files)

\* C10: all left files are indexed before a right file is touched; files are
\* announced (non-silent) one at a time in traversal order, left tree first;
\* a file's path is announced before its descriptor is computed; 'left' is
\* assigned only after the last right file; and after a failure the last
\* announced path is the file that failed.
C10PhaseOrdering ==
    /\ (pc = "right" \/ ri > 0) =>
        /\ li = Len(left_files)
        /\ Keys(left_index) = LeftKeys
    /\ PrintedPaths =
        IF silent THEN <<>>
        ELSE SubSeq(left_files, 1, li + (IF FailedLeft THEN 1 ELSE 0))
             \o SubSeq(right_files, 1, ri + (IF FailedRight THEN 1 ELSE 0))
    /\ ~silent =>
        \A i \in 1..Len(events) :
            IsCalc(events[i]) =>
                \E j \in 1..(i - 1) :
                    /\ events[j] = Ev("print", events[i].arg)
                    /\ \A m \in (j + 1)..(i - 1) : ~IsPrint(events[m])
    /\ output.left # EmptyMap =>
        /\ Returned
        /\ ri = Len(right_files)
    /\ Returned => ri = Len(right_files) /\ li = Len(left_files)
    /\ (failed # <<>> /\ ~silent) =>
        /\ PrintedPaths # <<>>
        /\ PrintedPaths[Len(PrintedPaths)] = failed[1]

\* C10 happens: non-silent, a left and a right file were processed and the
\* next right file failed
C10Witness ==
    /\ ~silent
    /\ failed # <<>>
    /\ li >= 1
    /\ ri >= 1

====
